---- MODULE Spec2Model ----
(***************************************************************************)
(* simexpal/launch/common.py: the launch protocol of one run identity      *)
(* (experiment, instance, repetition): lock_run, create_run_file, the      *)
(* RunManifest view and invoke_run, which supervises the child process;    *)
(* and compile_manifest's traversal of the builds a run requires.          *)
(*                                                                         *)
(* Several launcher processes work on the same run identity and share the  *)
(* file system.  Time is a global integer clock counted in poll intervals  *)
(* (the timeout of sel.select, one second).  Bytes of the child's error    *)
(* stream are numbered in the order written: the k-th byte has value k.    *)
(***************************************************************************)
EXTENDS Integers, Sequences, FiniteSets, TLC

\* ---------------------------------------------------------------- bounds
NumLaunchers == 2        \* launcher processes on the run identity
MaxCalls == 2            \* lock_run calls on the run identity, all launchers together
MaxBytes == 3            \* bytes the child writes to its error stream
MaxTime == 2             \* the clock stops advancing here
MaxTimeout == 1          \* largest configured timeout
MaxVariants == 2         \* variants of a manifest (manifest specification)
MaxBuilds == 3           \* build names of the configuration
MaxRequirements == 2     \* requirement entries of all builds together
ChunkSize == 2           \* stands for the 16 * 1024 of LazyWriter.progress
ReadAhead == 1           \* bytes a read may pull into the reader's buffer beyond its chunk
PollInterval == 1        \* sel.select(timeout=1)
SIGKILL == 9
SIGXCPU == 24
SIGRT == 35              \* a real-time signal: no member of signal.Signals

Launchers == 1..NumLaunchers

\* Python's None and a present value, as sequences of length 0 and 1.
None == <<>>
Some(x) == <<x>>
Val(o) == o[1]

\* ------------------------------------------------------------ file system
Files == {"lock", "run.tmp", "run", "out", "stderr", "status.tmp", "status"}
Absent == [exists |-> FALSE, data |-> <<>>]
File(d) == [exists |-> TRUE, data |-> d]
Exists(f, name) == f[name].exists

\* open(path, "w") / open(path, "wb"): create or truncate.
OpenTrunc(f, name) == [f EXCEPT ![name] = File(<<>>)]
\* os.rename(src, dst): dst is replaced in one step, src disappears.
Rename(f, src, dst) == [f EXCEPT ![dst] = f[src], ![src] = Absent]
\* append to an open file
Append2(f, name, d) == [f EXCEPT ![name] = File(f[name].data \o d)]

\* ---------------------------------------------------------------- manifest
Keys == {"A", "B"}
Vals == {"1", "2"}
EnvMaps == UNION {[S -> Vals] : S \in SUBSET Keys}

\* Faulty variant: an entry already present is kept (setdefault instead of update).
UpdateKeepsExisting(d, other) ==
  [k \in (DOMAIN d) \cup (DOMAIN other) |-> IF k \in DOMAIN d THEN d[k] ELSE other[k]]

\* dict.update(other): other's entries are written over d's.
Update(d, other) ==
  [k \in (DOMAIN d) \cup (DOMAIN other) |-> IF k \in DOMAIN other THEN other[k] ELSE d[k]]

\* The merged environment, as the environ property computes it (lines 84-88):
\* env_vars is the dictionary stored in the manifest itself, and every
\* variant's entries are written into it in list order.
RECURSIVE MergeVariants(_, _, _)
MergeVariants(env, variants, i) ==
  IF i > Len(variants) THEN env
  ELSE MergeVariants(Update(env, variants[i].environ), variants, i + 1)

EnvironAfter(m) == MergeVariants(m.environ, m.variants, 1)

\* get_extra_args (lines 122-126).
RECURSIVE ExtendArgs(_, _, _)
ExtendArgs(acc, variants, i) ==
  IF i > Len(variants) THEN acc
  ELSE ExtendArgs(acc \o variants[i].extra_args, variants, i + 1)

GetExtraArgs(m) == ExtendArgs(<<>>, m.variants, 1)

\* ------------------------------------------------ strings of path entries
\* A string is a sequence of tokens; the token Sep is the character ':' and
\* every other token is a piece of text without ':'.
Sep == <<":">>
Text(t) == <<t>>
\* os.path.join(a, b) for a relative b: one piece of text
OsPathJoin(a, b) == <<<<a, b>>>>

\* ':'.join(items)
RECURSIVE Join(_)
Join(items) ==
  IF Len(items) = 0 THEN <<>>
  ELSE IF Len(items) = 1 THEN items[1]
  ELSE items[1] \o <<Sep>> \o Join(Tail(items))

\* str.split(':'): the entries between the separators, empty ones included
RECURSIVE Split(_)
Split(str) ==
  IF \A n \in 1..Len(str) : str[n] # Sep THEN <<str>>
  ELSE LET n == CHOOSE n \in 1..Len(str) :
                  str[n] = Sep /\ \A m \in 1..(n - 1) : str[m] # Sep
       IN <<SubSeq(str, 1, n - 1)>> \o Split(SubSeq(str, n + 1, Len(str)))

\* get_paths (lines 128-132)
RECURSIVE GetPaths(_)
GetPaths(builds) ==
  IF builds = <<>> THEN <<>>
  ELSE <<OsPathJoin(builds[1].prefix, "bin")>> \o GetPaths(Tail(builds))

\* get_ldso_paths (lines 134-139)
RECURSIVE GetLdsoPaths(_)
GetLdsoPaths(builds) ==
  IF builds = <<>> THEN <<>>
  ELSE <<OsPathJoin(builds[1].prefix, "lib64"), OsPathJoin(builds[1].prefix, "lib")>>
         \o GetLdsoPaths(Tail(builds))

\* get_python_paths (lines 141-146)
RECURSIVE ExportPaths(_, _)
ExportPaths(prefix, exports) ==
  IF exports = <<>> THEN <<>>
  ELSE <<OsPathJoin(prefix, exports[1])>> \o ExportPaths(prefix, Tail(exports))

RECURSIVE GetPythonPaths(_)
GetPythonPaths(builds) ==
  IF builds = <<>> THEN <<>>
  ELSE ExportPaths(builds[1].prefix, builds[1].exports_python)
         \o GetPythonPaths(Tail(builds))

\* prepend_env (lines 249-252)
PrependEnv(os, var, items) ==
  IF var \in DOMAIN os THEN Join(items) \o <<Sep>> \o os[var] ELSE Join(items)

\* a manifest value as a string
StrMap(env) == [k \in DOMAIN env |-> <<Text(env[k])>>]

\* lines 254-258: the environment of the child
ChildEnviron(os, m) ==
  LET e1 == Update(os, "PATH" :> PrependEnv(os, "PATH", GetPaths(m.builds)))
      e2 == Update(e1, "LD_LIBRARY_PATH" :>
                         PrependEnv(os, "LD_LIBRARY_PATH", GetLdsoPaths(m.builds)))
      e3 == Update(e2, "PYTHONPATH" :>
                         PrependEnv(os, "PYTHONPATH", GetPythonPaths(m.builds)))
  IN Update(e3, StrMap(EnvironAfter(m)))

Timeouts == {None} \cup {Some(t) : t \in 0..MaxTimeout}
ArgLists == {<<>>, <<"--flag1">>, <<"--flag2", "--flag1">>}
Variants == [extra_args : ArgLists, environ : EnvMaps]
VariantLists == UNION {[1..n -> Variants] : n \in 0..MaxVariants}
\* manifests of the manifest specification
TopEnvMaps == UNION {[S -> Vals] : S \in SUBSET {"A"}}
Manifests ==
  [environ : TopEnvMaps, variants : VariantLists, timeout : {None}, builds : {<<>>}]
\* manifests of the launch specification: one body, every timeout
RunVariant == [extra_args |-> <<"--flag1">>, environ |-> [k \in {"A"} |-> "2"]]
RunBuild == [prefix |-> "/p1", exports_python |-> <<>>]
RunManifests ==
  [environ : {[k \in {"A"} |-> "1"]}, variants : {<<RunVariant>>}, timeout : Timeouts,
   builds : {<<RunBuild>>}]

\* ------------------------------------------------------------ child status
RetCodes == {0, 3, -SIGXCPU, -SIGRT}
\* signal.Signals(n).name; ValueError for a number that is no member.
SignalNames == (SIGKILL :> "SIGKILL") @@ (SIGXCPU :> "SIGXCPU")

\* yaml.dump of the status dictionary: key: value lines, keys sorted.
Serialize(d) ==
  << <<"signal", d.signal>>, <<"status", d.status>>,
     <<"timeout", d.timeout>>, <<"walltime", d.walltime>> >>
StatusKeys == <<"signal", "status", "timeout", "walltime">>
\* a complete serialized status record: every key, each once, in order
IsStatusRecord(data) ==
  /\ Len(data) = Len(StatusKeys)
  /\ \A i \in 1..Len(data) : data[i][1] = StatusKeys[i]
\* yaml.safe_load of a complete record
Parse(data) ==
  [signal |-> data[1][2], status |-> data[2][2],
   timeout |-> data[3][2], walltime |-> data[4][2]]

VARIABLES
  pc,          \* per launcher: the statement it is at
  fs,          \* the marker files of the run identity
  dirs,        \* the aux/output directory hierarchy exists
  lock_ret,    \* per launcher: the values its lock_run calls returned
  yml,         \* RunManifest.yml, the manifest's stored content
  yml0,        \* the manifest as compiled, before any consumption
  env_vars,    \* last value returned by RunManifest.environ
  extra_args,  \* last value returned by RunManifest.get_extra_args
  now,         \* time.perf_counter()
  sup,         \* per launcher: the local variables of invoke_run
  child,       \* per launcher: the child process and its stderr pipe
  spawns,      \* number of children spawned so far
  cm,          \* the local variables of compile_manifest
  os_environ,  \* os.environ of the supervisor
  environ      \* last environment invoke_run built for a child

vars ==
  <<pc, fs, dirs, lock_ret, yml, yml0, env_vars, extra_args, now, sup, child, spawns,
    cm, os_environ, environ>>

SupInit ==
  [start |-> 0, returncode |-> None, registered |-> FALSE, out |-> None,
   deadline |-> 0, chunk |-> <<>>, read |-> <<>>, progress_ret |-> None,
   closed |-> FALSE, signalled |-> FALSE, runtime |-> None, status_dict |-> None,
   rbuf |-> <<>>, drained |-> FALSE, resent |-> FALSE, last_signal |-> None,
   spawn_error |-> FALSE]

ChildInit ==
  [state |-> "none", exitcode |-> None, pipe |-> <<>>, open |-> FALSE, written |-> 0]

InitRun ==
  /\ pc = [l \in Launchers |-> "idle"]
  /\ fs = [f \in Files |-> Absent]
  /\ dirs = FALSE
  /\ lock_ret = [l \in Launchers |-> <<>>]
  /\ env_vars = None
  /\ extra_args = None
  /\ environ = None
  /\ now = 0
  /\ sup = [l \in Launchers |-> SupInit]
  /\ child = [l \in Launchers |-> ChildInit]
  /\ spawns = 0

\* ----------------------------------------------------- compile_manifest
BuildNames == 1..MaxBuilds
\* exp.info.used_builds: any list of build names
UsedBuildLists == UNION {[1..n -> BuildNames] : n \in 0..MaxBuilds}
\* build.info.requirements: any list of build names
RequirementLists(n) == UNION {[1..k -> BuildNames] : k \in 0..n}
\* build.prefix_dir and build.info.exports_python of the build of a name
PrefixDir(name) == <<"prefix", name>>
ExportsPython(name) == IF name = 1 THEN <<"python">> ELSE <<>>

\* lines 152-153 and 161; requirements holds what get_build has told so far,
\* resolved the names get_build was called with, in call order.
CompileInit(used) ==
  [pc |-> "used", used_builds |-> used, k |-> 1,
   recursive_builds |-> <<>>, builds_visited |-> {},
   i |-> 1, j |-> 1, requirements |-> <<>>, resolved |-> <<>>, builds_yml |-> None]

NoCompile == CompileInit(<<>>)

\* the environment the launch specification runs in
RunOsEnviron == "PATH" :> <<Text("/usr/bin")>>

Init ==
  /\ InitRun
  /\ cm = NoCompile
  /\ os_environ = RunOsEnviron
  /\ yml \in RunManifests
  /\ yml0 = yml

manifestVars == <<yml, yml0, env_vars, extra_args, cm, os_environ, environ>>
procVars == <<now, sup, child, spawns>>

\* ------------------------------------------------------------- lock_run
\* Faulty variant: O_CREAT without O_EXCL, the open succeeds on an existing file too.
OpenWithoutExcl(f, name) == TRUE

\* os.open(path, O_RDONLY | O_CREAT | O_EXCL): succeeds iff the file is absent.
OpenExclSucceeds(f, name) == ~Exists(f, name)

RECURSIVE CallsUpTo(_, _, _)
CallsUpTo(ret, p, n) ==
  IF n = 0 THEN 0
  ELSE Len(ret[n]) + (IF p[n] = "lock_close" THEN 1 ELSE 0) + CallsUpTo(ret, p, n - 1)
\* lock_run calls made so far
Calls == CallsUpTo(lock_ret, pc, NumLaunchers)

\* lines 17-35: the directories, then the exclusive create; FileExistsError
\* makes the call return False.
LockRunOpen(l) ==
  /\ pc[l] \in {"idle", "done"}
  /\ Calls < MaxCalls
  /\ dirs' = TRUE
  /\ IF OpenExclSucceeds(fs, "lock")
       THEN /\ fs' = OpenTrunc(fs, "lock")
            /\ pc' = [pc EXCEPT ![l] = "lock_close"]
            /\ lock_ret' = lock_ret
       ELSE /\ fs' = fs
            /\ pc' = [pc EXCEPT ![l] = "idle"]
            /\ lock_ret' = [lock_ret EXCEPT ![l] = Append(@, FALSE)]
  /\ UNCHANGED <<manifestVars, procVars>>

\* lines 36-37: os.close(lockfd); return True.
LockRunReturn(l) ==
  /\ pc[l] = "lock_close"
  /\ lock_ret' = [lock_ret EXCEPT ![l] = Append(@, TRUE)]
  /\ pc' = [pc EXCEPT ![l] = "create_run"]
  /\ UNCHANGED <<fs, dirs, manifestVars, procVars>>

\* ------------------------------------------------------ create_run_file
\* lines 43-44: open(run.tmp, "w") and close.
CreateRunTmp(l) ==
  /\ pc[l] = "create_run"
  /\ fs' = OpenTrunc(fs, "run.tmp")
  /\ pc' = [pc EXCEPT ![l] = "rename_run"]
  /\ UNCHANGED <<dirs, lock_ret, manifestVars, procVars>>

\* line 45: os.rename(run.tmp, run); FileNotFoundError propagates.
RenameRun(l) ==
  /\ pc[l] = "rename_run"
  /\ IF Exists(fs, "run.tmp")
       THEN /\ fs' = Rename(fs, "run.tmp", "run")
            /\ pc' = [pc EXCEPT ![l] = "inv_out"]
       ELSE /\ fs' = fs
            /\ pc' = [pc EXCEPT ![l] = "raised"]
  /\ UNCHANGED <<dirs, lock_ret, manifestVars, procVars>>

\* ------------------------------------------------------------ invoke_run
\* Faulty variant: the `out` marker is not created before the child is started.
InvokeOutSkipped(l) ==
  /\ pc[l] = "inv_out"
  /\ pc' = [pc EXCEPT ![l] = "inv_env"]
  /\ UNCHANGED <<fs, dirs, lock_ret, manifestVars, procVars>>

\* lines 221-226: open(out, "w") creates or truncates the `out` marker.
InvokeOut(l) ==
  /\ pc[l] = "inv_out"
  /\ fs' = OpenTrunc(fs, "out")
  /\ pc' = [pc EXCEPT ![l] = "inv_env"]
  /\ UNCHANGED <<dirs, lock_ret, manifestVars, procVars>>

\* What the environ property leaves in yml['environ']: env_vars is that very
\* dictionary (line 84 makes no copy), so the updates of line 86 land in it.
EnvironStored(m) == EnvironAfter(m)

\* lines 228-258: the command (EXTRA_ARGS through get_extra_args) and the
\* child's environment (environ.update(manifest.environ)).
InvokeEnv(l) ==
  /\ pc[l] = "inv_env"
  /\ extra_args' = Some(GetExtraArgs(yml))
  /\ env_vars' = Some(EnvironAfter(yml))
  /\ environ' = Some(ChildEnviron(os_environ, yml))
  /\ yml' = [yml EXCEPT !.environ = EnvironStored(yml)]
  /\ pc' = [pc EXCEPT ![l] = "inv_spawn"]
  /\ UNCHANGED <<fs, dirs, lock_ret, yml0, cm, os_environ, procVars>>

Min(a, b) == IF a < b THEN a ELSE b

\* Faulty variant: the error of Popen is caught and the spawn tried again.
RetrySpawn == "inv_spawn"

\* lines 286-287 are in no try block: what Popen raises leaves invoke_run.
OnSpawnError == "spawn_raised"

\* lines 283-291: start, Popen, the selector and the LazyWriter.  Popen
\* raises when the child cannot be started.
Spawn(l) ==
  /\ pc[l] = "inv_spawn"
  /\ \/ /\ sup' = [sup EXCEPT ![l] = [SupInit EXCEPT !.start = now, !.registered = TRUE]]
        /\ child' = [child EXCEPT ![l] = [ChildInit EXCEPT !.state = "running", !.open = TRUE]]
        /\ spawns' = spawns + 1
        /\ pc' = [pc EXCEPT ![l] = "loop_poll"]
     \/ /\ sup' = [sup EXCEPT ![l] = [SupInit EXCEPT !.start = now, !.spawn_error = TRUE]]
        /\ pc' = [pc EXCEPT ![l] = OnSpawnError]
        /\ UNCHANGED <<child, spawns>>
  /\ UNCHANGED <<fs, dirs, lock_ret, manifestVars, now>>

\* Popen.poll(): the return code once the child has exited, else None.
PollChild(c, known) == IF known # None THEN known ELSE c.exitcode

\* lines 295-296
LoopPoll(l) ==
  /\ pc[l] = "loop_poll"
  /\ LET rc == PollChild(child[l], sup[l].returncode)
     IN /\ sup' = [sup EXCEPT ![l].returncode = rc, ![l].last_signal = None]
        /\ pc' = [pc EXCEPT ![l] = IF rc # None THEN "drain_select" ELSE "loop_deadline"]
  /\ UNCHANGED <<fs, dirs, lock_ret, manifestVars, now, child, spawns>>

\* Faulty variant: the signal is sent as soon as the timeout is reached.
DeadlineReached(timeout, elapsed) == timeout # None /\ elapsed >= Val(timeout)

\* line 299
DeadlinePassed(timeout, elapsed) == timeout # None /\ elapsed > Val(timeout)

\* Faulty variant: the child is killed at the deadline.
HarsherSignal == SIGKILL

\* line 300: the signal send_signal is called with
TimeLimitSignal == SIGXCPU

\* lines 298-303, up to the call of select: Popen.send_signal polls the child
\* and signals it only if it has not exited.  last_signal is the signal sent
\* in the current iteration, resent tells that an earlier iteration sent one too.
LoopDeadline(l) ==
  /\ pc[l] = "loop_deadline"
  /\ LET elapsed == now - sup[l].start
         send == DeadlinePassed(yml.timeout, elapsed)
         rc == IF send THEN PollChild(child[l], sup[l].returncode) ELSE sup[l].returncode
         sent == send /\ rc = None
     IN sup' = [sup EXCEPT ![l].returncode = rc,
                           ![l].signalled = @ \/ sent,
                           ![l].last_signal = IF sent THEN Some(TimeLimitSignal) ELSE None,
                           ![l].resent = @ \/ (sent /\ sup[l].signalled),
                           ![l].deadline = Min(now + PollInterval, MaxTime)]
  /\ pc' = [pc EXCEPT ![l] = "loop_select"]
  /\ UNCHANGED <<fs, dirs, lock_ret, manifestVars, now, child, spawns>>

\* The registered stream is ready to read: bytes in the pipe, or end of file.
SelectReady(s, c) == s.registered /\ (c.pipe # <<>> \/ ~c.open)

\* line 303: select(timeout=1) returns at once with the ready events, or
\* empty-handed when the poll interval is over.
LoopSelect(l) ==
  /\ pc[l] = "loop_select"
  /\ \/ /\ SelectReady(sup[l], child[l])
        /\ pc' = [pc EXCEPT ![l] = "loop_read"]
     \/ /\ ~SelectReady(sup[l], child[l])
        /\ now >= sup[l].deadline
        /\ pc' = [pc EXCEPT ![l] = "loop_poll"]
  /\ UNCHANGED <<fs, dirs, lock_ret, manifestVars, procVars>>

\* line 270: child.stderr is the buffered reader Popen makes for
\* stderr=PIPE; its read(n) returns when n bytes are there or at end of file.
\* The bytes come from the reader's own buffer first, then from the pipe.
ReadBlocks(s, c) == Len(s.rbuf) + Len(c.pipe) < ChunkSize /\ c.open
ReadChunk(p) == SubSeq(p, 1, Min(ChunkSize, Len(p)))
\* The last raw read of a request fills the reader's buffer and may bring
\* more bytes than the request still needs: they stay in the buffer, out of
\* the pipe, for the next read.
ReadAheads(avail, chunk) == 0..Min(ReadAhead, Len(avail) - Len(chunk))

\* lines 271-277: the value progress() returns
ProgressReturn(chunk) == Len(chunk) # 0

\* open(path, "wb") buffers writes: a write that overflows the buffer goes
\* through to the file together with what was buffered.
WriteBufSize == ChunkSize - 1

\* Faulty variant: the backing file is opened by the first read, empty or not.
WriterOpensEagerly(out, chunk) == out = None

\* lines 271-275: the backing file is opened on the first non-empty chunk.
WriterOpens(out, chunk) == Len(chunk) # 0 /\ out = None

\* lines 268-277 and the caller's unregister (305-306, 312-313)
Progress(l, next) ==
  /\ ~ReadBlocks(sup[l], child[l])
  /\ LET c == child[l]
         s == sup[l]
         avail == s.rbuf \o c.pipe
         chunk == ReadChunk(avail)
         ret == ProgressReturn(chunk)
         opens == WriterOpens(s.out, chunk)
         f1 == IF opens THEN OpenTrunc(fs, "stderr") ELSE fs
         out1 == IF opens THEN Some(<<>>) ELSE s.out
         through == Len(Val(out1)) + Len(chunk) > WriteBufSize
     IN \E k \in ReadAheads(avail, chunk) :
        /\ child' = [child EXCEPT ![l].pipe = SubSeq(avail, Len(chunk) + k + 1, Len(avail))]
        /\ IF Len(chunk) = 0
             THEN /\ fs' = f1
                  /\ sup' = [sup EXCEPT ![l].chunk = chunk,
                                        ![l].rbuf = <<>>,
                                        ![l].out = out1,
                                        ![l].progress_ret = Some(ret),
                                        ![l].registered = IF ret THEN @ ELSE FALSE]
             ELSE /\ fs' = IF through THEN Append2(f1, "stderr", Val(out1) \o chunk) ELSE f1
                  /\ sup' = [sup EXCEPT ![l].chunk = chunk,
                                        ![l].rbuf = SubSeq(avail, Len(chunk) + 1, Len(chunk) + k),
                                        ![l].read = @ \o chunk,
                                        ![l].out = Some(IF through THEN <<>> ELSE Val(out1) \o chunk),
                                        ![l].progress_ret = Some(ret),
                                        ![l].registered = IF ret THEN @ ELSE FALSE]
  /\ pc' = [pc EXCEPT ![l] = next]
  /\ UNCHANGED <<dirs, lock_ret, manifestVars, now, spawns>>

\* lines 304-306
LoopRead(l) == pc[l] = "loop_read" /\ Progress(l, "loop_poll")

\* lines 310, 314-315: select(timeout=0)
DrainSelect(l) ==
  /\ pc[l] = "drain_select"
  /\ pc' = [pc EXCEPT ![l] = IF SelectReady(sup[l], child[l]) THEN "drain_read" ELSE "close"]
  /\ sup' = [sup EXCEPT ![l].drained = ~SelectReady(sup[l], child[l])]
  /\ UNCHANGED <<fs, dirs, lock_ret, manifestVars, now, child, spawns>>

\* lines 311-313
DrainRead(l) == pc[l] = "drain_read" /\ Progress(l, "drain_select")

\* Faulty variant: the comparison is not strict.
DidTimeoutAtDeadline(timeout, runtime) == timeout # None /\ runtime >= Val(timeout)

\* line 326
DidTimeout(timeout, runtime) == timeout # None /\ runtime > Val(timeout)

\* Faulty variant: the exit status is recorded for a signalled child too.
StatusAlways(rc) == Some(rc)

\* lines 320-325
Status(rc) == IF rc < 0 THEN None ELSE Some(rc)
Sigcode(rc) == IF rc < 0 THEN Some(SignalNames[-rc]) ELSE None

\* lines 320-330
StatusDict(rc, runtime, timeout) ==
  [timeout |-> DidTimeout(timeout, runtime), walltime |-> runtime,
   status |-> Status(rc), signal |-> Sigcode(rc)]

\* lines 279-281: close() flushes what the writer still buffers.
CloseWriter(f, out) == IF out = None THEN f ELSE Append2(f, "stderr", Val(out))

\* lines 316-330: close the writer, take the runtime, classify.  Signals(n)
\* raises ValueError for a number that names no signal.
Finalize(l) ==
  /\ pc[l] = "close"
  /\ LET s == sup[l]
         rc == Val(s.returncode)
         runtime == now - s.start
     IN /\ fs' = CloseWriter(fs, s.out)
        /\ IF rc < 0 /\ -rc \notin DOMAIN SignalNames
             THEN /\ sup' = [sup EXCEPT ![l].closed = TRUE, ![l].runtime = Some(runtime)]
                  /\ pc' = [pc EXCEPT ![l] = "raised"]
             ELSE /\ sup' = [sup EXCEPT ![l].closed = TRUE, ![l].runtime = Some(runtime),
                                        ![l].status_dict = Some(StatusDict(rc, runtime, yml.timeout))]
                  /\ pc' = [pc EXCEPT ![l] = "st_open"]
  /\ UNCHANGED <<dirs, lock_ret, manifestVars, now, child, spawns>>

\* Faulty variant: the record is written in place, straight into `status`.
StatusOpenInPlace(l) ==
  /\ pc[l] = "st_open"
  /\ fs' = OpenTrunc(OpenTrunc(fs, "status.tmp"), "status")
  /\ pc' = [pc EXCEPT ![l] = "st_dump"]
  /\ UNCHANGED <<dirs, lock_ret, manifestVars, procVars>>

\* line 331: open(status.tmp, "w")
StatusOpen(l) ==
  /\ pc[l] = "st_open"
  /\ fs' = OpenTrunc(fs, "status.tmp")
  /\ pc' = [pc EXCEPT ![l] = "st_dump"]
  /\ UNCHANGED <<dirs, lock_ret, manifestVars, procVars>>

\* line 332: yaml.dump emits the record piece by piece; the first pieces
\* may reach the file before the rest.
StatusDump(l) ==
  /\ pc[l] = "st_dump"
  /\ fs' = [fs EXCEPT !["status.tmp"] = File(SubSeq(Serialize(Val(sup[l].status_dict)), 1, 2))]
  /\ pc' = [pc EXCEPT ![l] = "st_close"]
  /\ UNCHANGED <<dirs, lock_ret, manifestVars, procVars>>

\* line 332, end of the with block: everything is written, the file closed.
StatusClose(l) ==
  /\ pc[l] = "st_close"
  /\ fs' = [fs EXCEPT !["status.tmp"] = File(Serialize(Val(sup[l].status_dict)))]
  /\ pc' = [pc EXCEPT ![l] = "st_rename"]
  /\ UNCHANGED <<dirs, lock_ret, manifestVars, procVars>>

\* line 333
StatusRename(l) ==
  /\ pc[l] = "st_rename"
  /\ IF Exists(fs, "status.tmp")
       THEN /\ fs' = Rename(fs, "status.tmp", "status")
            /\ pc' = [pc EXCEPT ![l] = "done"]
       ELSE /\ fs' = fs
            /\ pc' = [pc EXCEPT ![l] = "raised"]
  /\ UNCHANGED <<dirs, lock_ret, manifestVars, procVars>>

\* ------------------------------------------------------------- the child
ChildWrite(l) ==
  /\ child[l].state = "running"
  /\ child[l].open
  /\ child[l].written < MaxBytes
  /\ child' = [child EXCEPT ![l].written = @ + 1, ![l].pipe = Append(@, child[l].written + 1)]
  /\ UNCHANGED <<pc, fs, dirs, lock_ret, manifestVars, now, sup, spawns>>

ChildCloseStderr(l) ==
  /\ child[l].state = "running"
  /\ child[l].open
  /\ child' = [child EXCEPT ![l].open = FALSE]
  /\ UNCHANGED <<pc, fs, dirs, lock_ret, manifestVars, now, sup, spawns>>

\* The child exits with a code or dies of a signal.  Its end of the pipe
\* closes, unless a process the child started has inherited it and still
\* holds it open.
ChildExit(l) ==
  /\ child[l].state = "running"
  /\ \E rc \in RetCodes, held \in BOOLEAN :
       child' = [child EXCEPT ![l].state = "exited", ![l].exitcode = Some(rc),
                              ![l].open = @ /\ held]
  /\ UNCHANGED <<pc, fs, dirs, lock_ret, manifestVars, now, sup, spawns>>

\* The last process holding the write end of the pipe lets go of it.
DescendantClose(l) ==
  /\ child[l].state = "exited"
  /\ child[l].open
  /\ child' = [child EXCEPT ![l].open = FALSE]
  /\ UNCHANGED <<pc, fs, dirs, lock_ret, manifestVars, now, sup, spawns>>

\* ------------------------------------------------------------- the clock
LoopPcs == {"loop_poll", "loop_deadline", "loop_select", "loop_read"}
TimedPcs == LoopPcs \cup {"drain_select", "drain_read", "close"}

\* The supervisor is suspended: in select before its timeout with nothing
\* ready, or inside a read that has not returned.
Waiting(l) ==
  \/ pc[l] = "loop_select" /\ ~SelectReady(sup[l], child[l]) /\ now < sup[l].deadline
  \/ pc[l] = "loop_read" /\ ReadBlocks(sup[l], child[l])

\* Time passes while every supervisor in its monitoring loop is suspended;
\* the statements between two suspensions take no time.
Tick ==
  /\ now < MaxTime
  /\ \E l \in Launchers : pc[l] \in TimedPcs
  /\ \A l \in Launchers : pc[l] \in LoopPcs => Waiting(l)
  /\ now' = now + 1
  /\ UNCHANGED <<pc, fs, dirs, lock_ret, manifestVars, sup, child, spawns>>

Next ==
  \/ \E l \in Launchers :
       \/ LockRunOpen(l)
       \/ LockRunReturn(l)
       \/ CreateRunTmp(l)
       \/ RenameRun(l)
       \/ InvokeOut(l)
       \/ InvokeEnv(l)
       \/ Spawn(l)
       \/ LoopPoll(l)
       \/ LoopDeadline(l)
       \/ LoopSelect(l)
       \/ LoopRead(l)
       \/ DrainSelect(l)
       \/ DrainRead(l)
       \/ Finalize(l)
       \/ StatusOpen(l)
       \/ StatusDump(l)
       \/ StatusClose(l)
       \/ StatusRename(l)
       \/ ChildWrite(l)
       \/ ChildCloseStderr(l)
       \/ ChildExit(l)
       \/ DescendantClose(l)
  \/ Tick

Spec == Init /\ [][Next]_vars

\* ------------------------------------------- consuming a manifest by hand
\* lines 82-88: the environ property
ReadEnviron ==
  /\ env_vars' = Some(EnvironAfter(yml))
  /\ yml' = [yml EXCEPT !.environ = EnvironStored(yml)]
  /\ UNCHANGED <<pc, fs, dirs, lock_ret, yml0, extra_args, cm, os_environ, environ, procVars>>

\* lines 122-126: get_extra_args
ReadExtraArgs ==
  /\ extra_args' = Some(GetExtraArgs(yml))
  /\ UNCHANGED <<pc, fs, dirs, lock_ret, yml, yml0, env_vars, cm, os_environ, environ, procVars>>

InitManifest ==
  /\ InitRun
  /\ cm = NoCompile
  /\ os_environ = RunOsEnviron
  /\ yml \in Manifests
  /\ yml0 = yml

NextManifest == ReadEnviron \/ ReadExtraArgs

SpecManifest == InitManifest /\ [][NextManifest]_vars

\* ------------------------------------------- the environment of the child
SearchVars == {"PATH", "LD_LIBRARY_PATH", "PYTHONPATH"}
InheritedValues == {<<Text("/usr/bin")>>, <<Text("/usr/bin"), Sep, Text("/bin")>>}
OsEnvirons == UNION {[S -> InheritedValues] : S \in SUBSET SearchVars}
YmlBuilds == [prefix : {"/p1", "/p2"}, exports_python : {<<>>, <<"python">>}]
YmlBuildLists == UNION {[1..n -> YmlBuilds] : n \in 0..MaxBuilds}
YmlEnvirons == UNION {[S -> Vals] : S \in SUBSET {"A", "PATH"}}
EnvironManifests ==
  [environ : YmlEnvirons, variants : {<<>>, <<RunVariant>>}, timeout : {None},
   builds : YmlBuildLists]

\* lines 254-258, with the environ property of lines 82-88 it calls
BuildEnviron ==
  /\ environ = None
  /\ environ' = Some(ChildEnviron(os_environ, yml))
  /\ env_vars' = Some(EnvironAfter(yml))
  /\ yml' = [yml EXCEPT !.environ = EnvironStored(yml)]
  /\ UNCHANGED <<pc, fs, dirs, lock_ret, yml0, extra_args, cm, os_environ, procVars>>

InitEnviron ==
  /\ InitRun
  /\ cm = NoCompile
  /\ os_environ \in OsEnvirons
  /\ yml \in EnvironManifests
  /\ yml0 = yml

NextEnviron == BuildEnviron

SpecEnviron == InitEnviron /\ [][NextEnviron]_vars

\* ----------------------------------------------------- compile_manifest
\* requirement entries get_build may still tell of
EntriesLeft(c) ==
  LET RECURSIVE Sum(_)
      Sum(n) == IF n = 0 THEN 0 ELSE Len(c.requirements[n][2]) + Sum(n - 1)
  IN MaxRequirements - Sum(Len(c.requirements))

\* build.info.requirements of a build get_build has returned
RequirementsOf(c, name) ==
  LET n == CHOOSE n \in 1..Len(c.requirements) : c.requirements[n][1] = name
  IN c.requirements[n][2]

Known(c, name) == \E n \in 1..Len(c.requirements) : c.requirements[n][1] = name

\* Faulty variant: no build counts as visited.
NeverVisited(c, name) == FALSE

\* lines 156 and 165: name in builds_visited
Visited(c, name) == name \in c.builds_visited

\* run.config.get_build(name, exp.revision), then append and add (lines
\* 157-159 and 167-169).  The configuration is outside this file: the
\* build of a name has any requirement list, the same at every call.
GetBuild(c, name, reqs) ==
  [c EXCEPT !.recursive_builds = Append(@, name),
            !.builds_visited = @ \cup {name},
            !.resolved = Append(@, name),
            !.requirements = IF Known(c, name) THEN @ ELSE Append(@, <<name, reqs>>)]

ChoicesFor(c, name) ==
  IF Known(c, name) THEN {RequirementsOf(c, name)} ELSE RequirementLists(EntriesLeft(c))

\* lines 155-159: one round of the loop over exp.info.used_builds; the
\* assert of line 156 raises on a name listed twice.
UsedBuildsLoop ==
  /\ cm.pc = "used"
  /\ IF cm.k > Len(cm.used_builds)
       THEN cm' = [cm EXCEPT !.pc = "closure"]
       ELSE LET name == cm.used_builds[cm.k]
            IN IF Visited(cm, name)
                 THEN cm' = [cm EXCEPT !.pc = "raised"]
                 ELSE \E reqs \in ChoicesFor(cm, name) :
                        cm' = [GetBuild(cm, name, reqs) EXCEPT !.k = @ + 1]
  /\ UNCHANGED <<pc, fs, dirs, lock_ret, yml, yml0, env_vars, extra_args, os_environ, environ, procVars>>

\* lines 161-170: one round of the inner loop over the requirements of
\* recursive_builds[i], or the step to the next i, or the end of the loop.
ClosureLoop ==
  /\ cm.pc = "closure"
  /\ IF cm.i > Len(cm.recursive_builds)
       THEN cm' = [cm EXCEPT !.pc = "emit"]
       ELSE LET reqs == RequirementsOf(cm, cm.recursive_builds[cm.i])
            IN IF cm.j > Len(reqs)
                 THEN cm' = [cm EXCEPT !.i = @ + 1, !.j = 1]
                 ELSE LET req_name == reqs[cm.j]
                      IN IF Visited(cm, req_name)
                           THEN cm' = [cm EXCEPT !.j = @ + 1]
                           ELSE \E r \in ChoicesFor(cm, req_name) :
                                  cm' = [GetBuild(cm, req_name, r) EXCEPT !.j = @ + 1]
  /\ UNCHANGED <<pc, fs, dirs, lock_ret, yml, yml0, env_vars, extra_args, os_environ, environ, procVars>>

\* lines 172-177: builds_yml
BuildsYml(builds) ==
  [n \in 1..Len(builds) |->
     [prefix |-> PrefixDir(builds[n]), exports_python |-> ExportsPython(builds[n])]]

EmitBuilds ==
  /\ cm.pc = "emit"
  /\ cm' = [cm EXCEPT !.pc = "done", !.builds_yml = Some(BuildsYml(cm.recursive_builds))]
  /\ UNCHANGED <<pc, fs, dirs, lock_ret, yml, yml0, env_vars, extra_args, os_environ, environ, procVars>>

InitCompile ==
  /\ InitRun
  /\ os_environ = RunOsEnviron
  /\ yml \in {m \in RunManifests : m.timeout = None}
  /\ yml0 = yml
  /\ \E used \in UsedBuildLists : cm = CompileInit(used)

NextCompile == UsedBuildsLoop \/ ClosureLoop \/ EmitBuilds

SpecCompile == InitCompile /\ [][NextCompile]_vars

\* compile_manifest is one sequential call: it keeps running while it can
SpecCompileLive == SpecCompile /\ WF_vars(NextCompile)

\* ================================================================ claims
TrueCalls ==
  {c \in Launchers \X (1..MaxCalls) : c[2] <= Len(lock_ret[c[1]]) /\ lock_ret[c[1]][c[2]]}
Creating == {l \in Launchers : pc[l] = "lock_close"}

\* C1: of all lock_run calls on the run identity, started with the lock
\* marker absent, at most one returns True, and it is the call whose
\* exclusive create made the marker: the marker exists exactly when one call
\* has created it (and has returned True or is about to); once every started
\* call has returned, exactly one has returned True and the others False.
C1_MutualExclusion ==
  /\ Cardinality(TrueCalls) + Cardinality(Creating) = (IF Exists(fs, "lock") THEN 1 ELSE 0)
  /\ (Calls > 0 /\ Creating = {}) => Cardinality(TrueCalls) = 1
  /\ \A l \in Launchers : \A i \in 1..Len(lock_ret[l]) : lock_ret[l][i] \in BOOLEAN

\* two launchers raced: one got True, the other False
C1_Witness ==
  \E l1, l2 \in Launchers :
    l1 # l2 /\ lock_ret[l1] = <<TRUE>> /\ lock_ret[l2] = <<FALSE>>

\* C2: at most one child is ever spawned; the lock marker, once there, is
\* never removed, and every lock_run call made while it exists returns
\* False, the acquirer's own repeated call and calls after `status` included.
C2_AtMostOneExecution ==
  /\ [](spawns <= 1)
  /\ [][Exists(fs, "lock") => Exists(fs', "lock")]_vars
  /\ [][\A l \in Launchers :
          (Exists(fs, "lock") /\ pc[l] # "lock_close")
            => lock_ret'[l] \in {lock_ret[l], Append(lock_ret[l], FALSE)}]_vars

\* the acquirer ran the child, published `status`, called lock_run again and got False
C2_Witness ==
  \E l \in Launchers :
    /\ lock_ret[l] = <<TRUE, FALSE>>
    /\ Exists(fs, "status")
    /\ spawns = 1

TmpOf(m) == IF m = "run" THEN "run.tmp" ELSE "status.tmp"
\* the content a canonical marker must have to be complete
Complete(m, data) == IF m = "run" THEN data = <<>> ELSE IsStatusRecord(data)

\* C3: `run` and `status` are absent or complete in every state; each comes
\* into existence only by the rename of its temporary file, complete and
\* closed at that moment; once there it is never removed nor changed.
C3_MarkerAtomicity ==
  /\ [](\A m \in {"run", "status"} : Exists(fs, m) => Complete(m, fs[m].data))
  /\ [](Exists(fs, "status") =>
          \E l \in Launchers : /\ sup[l].status_dict # None
                               /\ fs["status"].data = Serialize(Val(sup[l].status_dict)))
  /\ [][\A m \in {"run", "status"} :
          /\ Exists(fs, m) => fs'[m] = fs[m]
          /\ (~Exists(fs, m) /\ Exists(fs', m)) =>
               /\ Exists(fs, TmpOf(m))
               /\ Complete(m, fs[TmpOf(m)].data)
               /\ fs'[m] = fs[TmpOf(m)]
               /\ ~Exists(fs', TmpOf(m))
               /\ \E l \in Launchers : pc[l] \in {"rename_run", "st_rename"}]_vars

\* both markers are published, the status record in full
C3_Witness ==
  /\ Exists(fs, "run")
  /\ Exists(fs, "status")
  /\ Len(fs["status"].data) = 4
  /\ ~Exists(fs, "status.tmp")

\* C4: `out` exists when the child is spawned; `status` appears only by the
\* step of a supervisor that has seen the child's exit, ended the drain phase
\* (its last sweep found nothing ready) and closed the stderr writer; after `status`
\* is visible no file is created, written or renamed.
C4_SideEffectOrder ==
  /\ [][spawns' # spawns => Exists(fs, "out")]_vars
  /\ [][(~Exists(fs, "status") /\ Exists(fs', "status")) =>
          \E l \in Launchers :
            /\ pc[l] = "st_rename" /\ pc'[l] = "done"
            /\ sup[l].returncode # None
            /\ sup[l].drained
            /\ sup[l].closed]_vars
  /\ [][Exists(fs, "status") => fs' = fs]_vars

\* a run that produced error output has finished
C4_Witness ==
  \E l \in Launchers :
    pc[l] = "done" /\ Exists(fs, "status") /\ Exists(fs, "stderr") /\ Exists(fs, "out")

\* C5: with a timeout configured, a child still running more than one poll
\* interval past the deadline has been sent the time-limit signal, whatever
\* it does with its error stream.
C5_TimeoutLatency ==
  \A l \in Launchers :
    ( /\ pc[l] \in LoopPcs
      /\ child[l].state = "running"
      /\ yml.timeout # None
      /\ now - sup[l].start > Val(yml.timeout) + PollInterval )
    => sup[l].signalled

\* C6: in every status record exactly one of status and signal is null: a
\* child that died of a signal gives the signal's name and no status, any
\* other child its exit code and no signal.
C6_StatusClassification ==
  /\ \A l \in Launchers :
       sup[l].status_dict # None =>
         LET d == Val(sup[l].status_dict)
             rc == Val(child[l].exitcode)
         IN /\ (d.status = None) # (d.signal = None)
            /\ IF rc < 0
                 THEN d.signal = Some(SignalNames[-rc]) /\ d.status = None
                 ELSE d.status = Some(rc) /\ d.signal = None
  /\ Exists(fs, "status") =>
       LET rec == Parse(fs["status"].data)
       IN /\ (rec.status = None) # (rec.signal = None)
          /\ \E l \in Launchers :
               sup[l].status_dict # None /\ rec = Val(sup[l].status_dict)

\* a child killed by SIGXCPU after the deadline: signal name, no status
C6_Witness ==
  /\ Exists(fs, "status")
  /\ Parse(fs["status"].data).signal = Some("SIGXCPU")
  /\ Parse(fs["status"].data).status = None
  /\ Parse(fs["status"].data).timeout

\* C7: the record's timeout field is true exactly when a timeout is
\* configured and the recorded walltime, the runtime taken after the drain
\* phase and the writer's close, is strictly greater; status and signal
\* follow the child's actual end whatever the field says.
C7_TimedOut ==
  \A l \in Launchers :
    sup[l].status_dict # None =>
      LET d == Val(sup[l].status_dict)
          rc == Val(child[l].exitcode)
      IN /\ sup[l].closed
         /\ d.walltime = Val(sup[l].runtime)
         /\ d.timeout <=> (yml.timeout # None /\ d.walltime > Val(yml.timeout))
         /\ yml.timeout = None => ~d.timeout
         /\ d.status = (IF rc < 0 THEN None ELSE Some(rc))

\* the deadline passed unnoticed and the child ended by itself with code 0
C7_Witness ==
  \E l \in Launchers :
    /\ Exists(fs, "status")
    /\ sup[l].status_dict # None
    /\ Val(sup[l].status_dict).timeout
    /\ Val(sup[l].status_dict).status = Some(0)
    /\ ~sup[l].signalled

\* C8: after close() the stderr file exists exactly when some read returned
\* a non-empty chunk, and then holds the chunks read, in read order; before
\* that it exists only if a chunk was read; progress() returned False
\* exactly when its read returned no byte.
C8_LazyWriter ==
  \A l \in Launchers :
    /\ (child[l].state # "none" /\ Exists(fs, "stderr")) => sup[l].read # <<>>
    /\ sup[l].closed =>
         /\ Exists(fs, "stderr") <=> sup[l].read # <<>>
         /\ Exists(fs, "stderr") => fs["stderr"].data = sup[l].read
    /\ sup[l].progress_ret # None =>
         (Val(sup[l].progress_ret) <=> sup[l].chunk # <<>>)

\* a full chunk and a short one were read, the writer is closed
C8_Witness ==
  \E l \in Launchers :
    /\ sup[l].closed
    /\ sup[l].read = <<1, 2, 3>>
    /\ fs["stderr"].data = <<1, 2, 3>>
    /\ sup[l].progress_ret = Some(FALSE)

\* C9: consuming the manifest leaves its stored content as compiled.
C9_ManifestUnchanged == yml = yml0

HasKey(v, k) == k \in DOMAIN v.environ
VariantKeys(m) == UNION {DOMAIN m.variants[i].environ : i \in 1..Len(m.variants)}
LastVariantWith(m, k) ==
  CHOOSE i \in 1..Len(m.variants) :
    /\ HasKey(m.variants[i], k)
    /\ \A j \in (i + 1)..Len(m.variants) : ~HasKey(m.variants[j], k)
RECURSIVE ArgsBefore(_, _)
ArgsBefore(m, i) ==
  IF i <= 1 THEN 0 ELSE ArgsBefore(m, i - 1) + Len(m.variants[i - 1].extra_args)

\* C10: in the merged environment every key some variant assigns has the
\* value of the last variant assigning it, every other key the manifest's own
\* value, and there is no further key; the extra arguments are the variants'
\* lists one after the other, in variant order, each in its own order.
C10_VariantMergeOrder ==
  /\ env_vars # None =>
       LET e == Val(env_vars)
       IN /\ DOMAIN e = (DOMAIN yml0.environ) \cup VariantKeys(yml0)
          /\ \A k \in DOMAIN e :
               e[k] = IF k \in VariantKeys(yml0)
                        THEN yml0.variants[LastVariantWith(yml0, k)].environ[k]
                        ELSE yml0.environ[k]
  /\ extra_args # None =>
       LET a == Val(extra_args)
           n == Len(yml0.variants)
       IN /\ Len(a) = ArgsBefore(yml0, n + 1)
          /\ \A i \in 1..n : \A j \in 1..Len(yml0.variants[i].extra_args) :
               a[ArgsBefore(yml0, i) + j] = yml0.variants[i].extra_args[j]

\* variants [{A:1}, {A:2, B:1}] were merged to {A:2, B:1}, their arguments joined
C10_Witness ==
  /\ Len(yml0.variants) = 2
  /\ yml0.variants[1].environ = [k \in {"A"} |-> "1"]
  /\ yml0.variants[2].environ = [k \in {"A", "B"} |-> IF k = "A" THEN "2" ELSE "1"]
  /\ env_vars = Some([k \in {"A", "B"} |-> IF k = "A" THEN "2" ELSE "1"])
  /\ yml0.variants[1].extra_args = <<"--flag1">>
  /\ yml0.variants[2].extra_args = <<"--flag2", "--flag1">>
  /\ extra_args = Some(<<"--flag1", "--flag2", "--flag1">>)

\* ---------------------------------------------------------------- C11
IsDuplicateFree(q) == \A m, n \in 1..Len(q) : q[m] = q[n] => m = n
Range(q) == {q[n] : n \in 1..Len(q)}
FirstIndex(q, x) == CHOOSE n \in 1..Len(q) : q[n] = x /\ \A m \in 1..(n - 1) : q[m] # x

\* the names reachable from a set of names through the requirements told
RECURSIVE ReachableFrom(_, _, _)
ReachableFrom(c, S, n) ==
  IF n = 0 THEN S
  ELSE ReachableFrom(c, S \cup UNION {Range(RequirementsOf(c, x)) : x \in S}, n - 1)

\* the first position of the list whose build requires the name
Discoverer(c, b, x) ==
  CHOOSE p \in 1..Len(b) :
    /\ x \in Range(RequirementsOf(c, b[p]))
    /\ \A q \in 1..(p - 1) : x \notin Range(RequirementsOf(c, b[q]))

\* b is in first-discovery order: the directly used builds in their declared
\* order, then each requirement where the traversal met it first
FirstDiscoveryOrder(c, b) ==
  LET u == Len(c.used_builds)
  IN /\ Len(b) >= u
     /\ SubSeq(b, 1, u) = c.used_builds
     /\ \A n \in (u + 1)..Len(b) :
          /\ \E p \in 1..(n - 1) : b[n] \in Range(RequirementsOf(c, b[p]))
          /\ \A m \in (u + 1)..(n - 1) :
               LET dm == Discoverer(c, b, b[m])
                   dn == Discoverer(c, b, b[n])
                   reqs == RequirementsOf(c, b[dm])
               IN dm < dn \/ (dm = dn /\ FirstIndex(reqs, b[m]) < FirstIndex(reqs, b[n]))

\* C11: for every requirement graph and every duplicate-free list of directly
\* used builds, no build is ever listed twice during the traversal, the
\* traversal does not raise, and the `builds` it emits are exactly the builds
\* reachable from the directly used ones through requirements, each once, in
\* first-discovery order.
C11_BuildClosure ==
  IsDuplicateFree(cm.used_builds) =>
    /\ cm.pc # "raised"
    /\ IsDuplicateFree(cm.recursive_builds)
    /\ cm.pc = "done" =>
         /\ Range(cm.recursive_builds) = ReachableFrom(cm, Range(cm.used_builds), MaxBuilds)
         /\ FirstDiscoveryOrder(cm, cm.recursive_builds)
         /\ Val(cm.builds_yml) = BuildsYml(cm.recursive_builds)

\* a diamond: two builds of the result require the same third build, which
\* is listed once
C11_Witness ==
  /\ cm.pc = "done"
  /\ IsDuplicateFree(cm.used_builds)
  /\ \E p, q, n \in 1..Len(cm.recursive_builds) :
       /\ p # q /\ p # n /\ q # n
       /\ cm.recursive_builds[n] \in Range(RequirementsOf(cm, cm.recursive_builds[p]))
       /\ cm.recursive_builds[n] \in Range(RequirementsOf(cm, cm.recursive_builds[q]))

\* ---------------------------------------------------------------- C12
\* the path entries a search-path variable holds in an environment
EntriesIn(env, var) == IF var \in DOMAIN env THEN Split(env[var]) ELSE <<>>
DerivedPaths(var, builds) ==
  IF var = "PATH" THEN GetPaths(builds)
  ELSE IF var = "LD_LIBRARY_PATH" THEN GetLdsoPaths(builds)
  ELSE GetPythonPaths(builds)

\* C12: in the environment built for the child, a search-path variable the
\* manifest's merged environment does not assign holds exactly the paths
\* derived from the builds, in their order, followed by the entries of the
\* inherited value, and with no derived path it is the inherited value; a
\* key the manifest's merged environment assigns has the manifest's value.
C12_ChildEnvironment ==
  environ # None =>
    LET env == Val(environ)
        merged == EnvironAfter(yml0)
    IN /\ \A var \in SearchVars \ DOMAIN merged :
            LET derived == DerivedPaths(var, yml0.builds)
            IN /\ EntriesIn(env, var) = derived \o EntriesIn(os_environ, var)
               /\ derived = <<>> =>
                    IF var \in DOMAIN os_environ
                      THEN var \in DOMAIN env /\ env[var] = os_environ[var]
                      ELSE var \notin DOMAIN env
       /\ \A k \in DOMAIN merged : k \in DOMAIN env /\ env[k] = <<Text(merged[k])>>

\* ---------------------------------------------------------------- C13
SpawnFailedAt(l) == sup[l].spawn_error

\* C13: once the spawn of the child has failed, invoke_run has raised and
\* stays so: no child is ever spawned, neither `status` nor `status.tmp` nor
\* `stderr` exists or is ever written, and the `out` marker made before the
\* spawn and the lock marker stay in place.
C13_SpawnFailure ==
  /\ [](\A l \in Launchers : SpawnFailedAt(l) =>
          /\ pc[l] = "spawn_raised"
          /\ spawns = 0 /\ child[l].state = "none"
          /\ ~Exists(fs, "status") /\ ~Exists(fs, "status.tmp") /\ ~Exists(fs, "stderr")
          /\ Exists(fs, "out") /\ Exists(fs, "lock"))
  /\ [][\A l \in Launchers : SpawnFailedAt(l) =>
          pc'[l] = pc[l] /\ fs' = fs /\ spawns' = spawns /\ child' = child]_vars

\* the spawn has failed and another launcher has tried the lock since
C13_Witness ==
  \E l, l2 \in Launchers :
    /\ SpawnFailedAt(l) /\ pc[l] = "spawn_raised" /\ Exists(fs, "out")
    /\ l2 # l /\ lock_ret[l2] = <<FALSE>>

\* ---------------------------------------------------------------- C14
\* launcher l goes through lines 298-300 in this step
DeadlineStep(l) == pc[l] = "loop_deadline" /\ pc'[l] = "loop_select"
SignalDue(l) ==
  /\ yml.timeout # None
  /\ now - sup[l].start > Val(yml.timeout)
  /\ child[l].state = "running"

\* C14: the only signal the supervisor sends is SIGXCPU.  It sends it in an
\* iteration of the monitoring loop exactly when a timeout is configured, the
\* child polled as running is still alive and the elapsed walltime is
\* strictly greater than the timeout: once in that iteration, and again in
\* each later such iteration.  Without a timeout it never sends one, and it
\* sends none once it has seen the child's exit.
C14_SignalDiscipline ==
  /\ [](\A l \in Launchers :
          /\ sup[l].last_signal \in {None, Some(SIGXCPU)}
          /\ sup[l].last_signal # None => sup[l].signalled
          /\ yml.timeout = None => ~sup[l].signalled
          /\ sup[l].returncode # None => sup[l].last_signal = None)
  /\ [][\A l \in Launchers :
          /\ DeadlineStep(l) =>
               /\ sup[l].returncode = None /\ sup[l].last_signal = None
               /\ sup'[l].last_signal # None <=> SignalDue(l)
               /\ sup'[l].resent <=> (sup[l].resent \/ (sup[l].signalled /\ SignalDue(l)))
          /\ ~DeadlineStep(l) =>
               /\ sup'[l].last_signal \in {None, sup[l].last_signal}
               /\ pc[l] # "inv_spawn" =>
                    sup'[l].signalled = sup[l].signalled /\ sup'[l].resent = sup[l].resent
          /\ sup[l].returncode # None =>
               sup'[l].signalled = sup[l].signalled /\ sup'[l].resent = sup[l].resent]_vars

\* the child outlives the signal: it is signalled again in a later iteration
C14_Witness ==
  \E l \in Launchers :
    /\ pc[l] = "loop_select"
    /\ sup[l].resent /\ sup[l].last_signal = Some(SIGXCPU)
    /\ child[l].state = "running"

\* ---------------------------------------------------------------- C15
\* the bytes the child of launcher l has written to its error stream
Written(l) == [n \in 1..child[l].written |-> n]

\* C15: when `status` is published, the drain phase has ended with a sweep
\* that found nothing ready, and every byte the child wrote to its error
\* stream is in the `stderr` file, in the order written.
C15_DrainCompleteness ==
  \A l \in Launchers :
    (Exists(fs, "status") /\ child[l].state # "none") =>
      /\ sup[l].drained
      /\ child[l].written > 0 =>
           Exists(fs, "stderr") /\ fs["stderr"].data = Written(l)

\* ---------------------------------------------------------------- C16
\* invoke_run of launcher l has returned or raised
InvokeRunOver(l) == pc[l] \in {"done", "raised", "spawn_raised"}

\* C16: `status` is not written while the child has not terminated, and
\* once the child has terminated invoke_run does not end without having
\* published `status`: it leaves the monitoring loop, ends the drain phase
\* and publishes.
C16_SupervisorLiveness ==
  \A l \in Launchers :
    /\ child[l].state = "running" => ~Exists(fs, "status") /\ ~Exists(fs, "status.tmp")
    /\ (child[l].state = "exited" /\ InvokeRunOver(l)) => Exists(fs, "status")

\* ---------------------------------------------------------------- C17
\* C17: in a run that reaches finalization after the supervisor has sent the
\* time-limit signal at least once, the status record, as computed and as
\* published, has `timeout` true.
C17_SignalImpliesTimedOut ==
  \A l \in Launchers :
    sup[l].signalled =>
      /\ sup[l].status_dict # None => Val(sup[l].status_dict).timeout
      /\ Exists(fs, "status") =>
           IsStatusRecord(fs["status"].data) /\ Parse(fs["status"].data).timeout

\* a signalled child that ended with an exit code of its own
C17_Witness ==
  \E l \in Launchers :
    /\ sup[l].signalled
    /\ Exists(fs, "status")
    /\ Parse(fs["status"].data).timeout
    /\ Parse(fs["status"].data).status = Some(3)

\* ---------------------------------------------------------------- C18
MarkerOrder == <<"lock", "run", "out", "stderr", "status">>
\* the marker is made in this step
Appears(name) == ~Exists(fs, name) /\ Exists(fs', name)

\* C18: `status` exists only with `out`, `stderr` only with `out`, `out`
\* only with `run`, and `run` only with the lock; no marker is ever removed,
\* and a marker appears only after those before it in the order lock, run,
\* out, (stderr), status and before those after it.
C18_MarkerImplications ==
  /\ [](/\ Exists(fs, "status") => Exists(fs, "out")
        /\ Exists(fs, "stderr") => Exists(fs, "out")
        /\ Exists(fs, "out") => Exists(fs, "run")
        /\ Exists(fs, "run") => Exists(fs, "lock"))
  /\ [][\A i \in 1..Len(MarkerOrder) :
          /\ Exists(fs, MarkerOrder[i]) => Exists(fs', MarkerOrder[i])
          /\ Appears(MarkerOrder[i]) =>
               /\ \A j \in 1..(i - 1) :
                    MarkerOrder[j] # "stderr" => Exists(fs, MarkerOrder[j])
               /\ \A j \in (i + 1)..Len(MarkerOrder) : ~Exists(fs', MarkerOrder[j])]_vars

\* a finished run whose child wrote to its error stream: every marker is there
C18_Witness ==
  /\ \A i \in 1..Len(MarkerOrder) : Exists(fs, MarkerOrder[i])
  /\ \E l \in Launchers : pc[l] = "done" /\ lock_ret[l] = <<TRUE>>

\* ---------------------------------------------------------------- C19
CompileOver == cm.pc \in {"done", "raised"}

\* rounds the loop of lines 162-170 has left on the builds listed so far
RECURSIVE RoundsFrom(_, _)
RoundsFrom(c, n) ==
  IF n > Len(c.recursive_builds) THEN 0
  ELSE Len(RequirementsOf(c, c.recursive_builds[n])) + 1 + RoundsFrom(c, n + 1)

\* a bound on the steps the traversal has left: every name not yet visited
\* may bring one more build with its requirements
StepsLeft(c) ==
  LET unvisited == MaxBuilds - Cardinality(c.builds_visited)
      closure == IF c.i > Len(c.recursive_builds) THEN 0 ELSE RoundsFrom(c, c.i) - (c.j - 1)
      listed == IF c.pc = "used" THEN (Len(c.used_builds) - c.k + 1) + 1 + closure + 2
                ELSE IF c.pc = "closure" THEN closure + 2
                ELSE IF c.pc = "emit" THEN 1
                ELSE 0
  IN IF CompileOver THEN 0 ELSE unvisited * (MaxRequirements + 2) + listed

\* C19: on every requirement graph, cycles and self-requirements included,
\* the traversal terminates: every step brings it nearer to its end, no
\* build name is resolved twice, and `builds` is never longer than the
\* number of distinct build names.
C19_ClosureTerminates ==
  /\ <>CompileOver
  /\ [](/\ IsDuplicateFree(cm.resolved)
        /\ Len(cm.recursive_builds) <= Cardinality(Range(cm.resolved))
        /\ Len(cm.recursive_builds) <= MaxBuilds
        /\ StepsLeft(cm) >= 0)
  /\ [][StepsLeft(cm') < StepsLeft(cm)]_vars

\* the traversal has ended on a graph with a cycle: a build that requires
\* itself, or two builds that require each other
C19_Witness ==
  /\ cm.pc = "done"
  /\ \E n \in 1..Len(cm.recursive_builds) :
       LET x == cm.recursive_builds[n]
       IN \/ x \in Range(RequirementsOf(cm, x))
          \/ \E m \in 1..Len(cm.recursive_builds) :
               LET y == cm.recursive_builds[m]
               IN /\ x # y
                  /\ y \in Range(RequirementsOf(cm, x))
                  /\ x \in Range(RequirementsOf(cm, y))
====
